---- MODULE Spec2Model ----
(***************************************************************************)
(* Model of src/app.py: a Flask front-end that parses a suffix-decorated   *)
(* city name (split_suffix), issues one GET to the weather provider         *)
(* (fetch_weather_info) and renders the projected report (index).          *)
(*                                                                         *)
(* Python strings that the code cuts, folds and joins (the form input, the  *)
(* city name, the error message) are sequences of Unicode code points;     *)
(* strings the code only writes or passes along whole (suffix, dictionary  *)
(* keys, the formatted date, provider texts) are TLA+ strings.             *)
(* A Python dict is a function from its keys to its values.                *)
(* JSON numbers are integers here: the code copies them without looking.   *)
(***************************************************************************)
EXTENDS Integers, Sequences, FiniteSets, TLC

VARIABLES
    api_key,        \* module global api_key (line 10)
    pc,             \* position of the single handling thread
    entry,          \* what is being served: "GET", "POST", or a direct call
    form,           \* request.form of the request being served
    string,         \* the argument split_suffix was applied to
    city,           \* the name returned by split_suffix / passed to fetch
    suffix,         \* the suffix returned by split_suffix / passed to fetch
    params,         \* query parameters of the outbound GET of this call
    req_calls,      \* outbound GETs issued while serving the current call
    response,       \* what requests.get produced for this call
    weather_data,   \* index's weather_data / fetch_weather_info's return value
    error,          \* index's error
    exception       \* exception that escaped the call, "None" when none did

vars == <<api_key, pc, entry, form, string, city, suffix, params,
          req_calls, response, weather_data, error, exception>>

----------------------------------------------------------------------------
(* Bounds *)

\* longest form input / split_suffix argument enumerated
MaxLen == 4

----------------------------------------------------------------------------
(* Strings *)

Alphabet == {76, 108, 43, 32}                       \* "L", "l", "+", " "

Strings == UNION {[1..n -> Alphabet] : n \in 0..MaxLen}

\* "London++"
London_pp == <<76, 111, 110, 100, 111, 110, 43, 43>>
\* " Paris+ "
Paris_p == <<32, 80, 97, 114, 105, 115, 43, 32>>
\* "Atlantis"
Atlantis == <<65, 116, 108, 97, 110, 116, 105, 115>>
\* form feed, E acute, "l+", form feed
Elancourt_p == <<12, 201, 108, 43, 12>>
\* I with dot above, "++"
Istanbul_pp == <<304, 43, 43>>
\* omicron delta omicron sigma in capitals, "+"
Odos_p == <<927, 916, 927, 931, 43>>

\* form inputs the model submits
FormInputs ==
    Strings \cup
    {London_pp, Paris_p, Atlantis, Elancourt_p, Istanbul_pp, Odos_p}

\* request.form: with the field city, or without it
Forms == {[k \in {} |-> <<>>]} \cup {[city |-> raw] : raw \in FormInputs}

\* city arguments of direct calls of fetch_weather_info:
\* "Atlantis", E acute and "L", "l", ""
CityArgs == {Atlantis, <<201, 76>>, <<108>>, <<>>}

Suffixes == {"", "+", "++"}

\* the code points str.lower maps to one other code point, in ranges
\* <<first, last, step, delta>>: first, first+step, ..., last each go to
\* themselves plus delta (Unicode 14.0.0, the data of the Python that runs
\* the code)
LowerRanges ==
    {<<65,90,1,32>>, <<192,214,1,32>>, <<216,222,1,32>>, <<256,302,2,1>>,
     <<306,310,2,1>>, <<313,327,2,1>>, <<330,374,2,1>>, <<376,376,1,-121>>,
     <<377,381,2,1>>, <<385,385,1,210>>, <<386,388,2,1>>, <<390,390,1,206>>,
     <<391,391,1,1>>, <<393,394,1,205>>, <<395,395,1,1>>, <<398,398,1,79>>,
     <<399,399,1,202>>, <<400,400,1,203>>, <<401,401,1,1>>, <<403,403,1,205>>,
     <<404,404,1,207>>, <<406,406,1,211>>, <<407,407,1,209>>, <<408,408,1,1>>,
     <<412,412,1,211>>, <<413,413,1,213>>, <<415,415,1,214>>, <<416,420,2,1>>,
     <<422,422,1,218>>, <<423,423,1,1>>, <<425,425,1,218>>, <<428,428,1,1>>,
     <<430,430,1,218>>, <<431,431,1,1>>, <<433,434,1,217>>, <<435,437,2,1>>,
     <<439,439,1,219>>, <<440,440,1,1>>, <<444,444,1,1>>, <<452,452,1,2>>,
     <<453,453,1,1>>, <<455,455,1,2>>, <<456,456,1,1>>, <<458,458,1,2>>,
     <<459,475,2,1>>, <<478,494,2,1>>, <<497,497,1,2>>, <<498,500,2,1>>,
     <<502,502,1,-97>>, <<503,503,1,-56>>, <<504,542,2,1>>,
     <<544,544,1,-130>>, <<546,562,2,1>>, <<570,570,1,10795>>,
     <<571,571,1,1>>, <<573,573,1,-163>>, <<574,574,1,10792>>,
     <<577,577,1,1>>, <<579,579,1,-195>>, <<580,580,1,69>>, <<581,581,1,71>>,
     <<582,590,2,1>>, <<880,882,2,1>>, <<886,886,1,1>>, <<895,895,1,116>>,
     <<902,902,1,38>>, <<904,906,1,37>>, <<908,908,1,64>>, <<910,911,1,63>>,
     <<913,929,1,32>>, <<931,939,1,32>>, <<975,975,1,8>>, <<984,1006,2,1>>,
     <<1012,1012,1,-60>>, <<1015,1015,1,1>>, <<1017,1017,1,-7>>,
     <<1018,1018,1,1>>, <<1021,1023,1,-130>>, <<1024,1039,1,80>>,
     <<1040,1071,1,32>>, <<1120,1152,2,1>>, <<1162,1214,2,1>>,
     <<1216,1216,1,15>>, <<1217,1229,2,1>>, <<1232,1326,2,1>>,
     <<1329,1366,1,48>>, <<4256,4293,1,7264>>, <<4295,4295,1,7264>>,
     <<4301,4301,1,7264>>, <<5024,5103,1,38864>>, <<5104,5109,1,8>>,
     <<7312,7354,1,-3008>>, <<7357,7359,1,-3008>>, <<7680,7828,2,1>>,
     <<7838,7838,1,-7615>>, <<7840,7934,2,1>>, <<7944,7951,1,-8>>,
     <<7960,7965,1,-8>>, <<7976,7983,1,-8>>, <<7992,7999,1,-8>>,
     <<8008,8013,1,-8>>, <<8025,8031,2,-8>>, <<8040,8047,1,-8>>,
     <<8072,8079,1,-8>>, <<8088,8095,1,-8>>, <<8104,8111,1,-8>>,
     <<8120,8121,1,-8>>, <<8122,8123,1,-74>>, <<8124,8124,1,-9>>,
     <<8136,8139,1,-86>>, <<8140,8140,1,-9>>, <<8152,8153,1,-8>>,
     <<8154,8155,1,-100>>, <<8168,8169,1,-8>>, <<8170,8171,1,-112>>,
     <<8172,8172,1,-7>>, <<8184,8185,1,-128>>, <<8186,8187,1,-126>>,
     <<8188,8188,1,-9>>, <<8486,8486,1,-7517>>, <<8490,8490,1,-8383>>,
     <<8491,8491,1,-8262>>, <<8498,8498,1,28>>, <<8544,8559,1,16>>,
     <<8579,8579,1,1>>, <<9398,9423,1,26>>, <<11264,11311,1,48>>,
     <<11360,11360,1,1>>, <<11362,11362,1,-10743>>, <<11363,11363,1,-3814>>,
     <<11364,11364,1,-10727>>, <<11367,11371,2,1>>, <<11373,11373,1,-10780>>,
     <<11374,11374,1,-10749>>, <<11375,11375,1,-10783>>,
     <<11376,11376,1,-10782>>, <<11378,11378,1,1>>, <<11381,11381,1,1>>,
     <<11390,11391,1,-10815>>, <<11392,11490,2,1>>, <<11499,11501,2,1>>,
     <<11506,11506,1,1>>, <<42560,42604,2,1>>, <<42624,42650,2,1>>,
     <<42786,42798,2,1>>, <<42802,42862,2,1>>, <<42873,42875,2,1>>,
     <<42877,42877,1,-35332>>, <<42878,42886,2,1>>, <<42891,42891,1,1>>,
     <<42893,42893,1,-42280>>, <<42896,42898,2,1>>, <<42902,42920,2,1>>,
     <<42922,42922,1,-42308>>, <<42923,42923,1,-42319>>,
     <<42924,42924,1,-42315>>, <<42925,42925,1,-42305>>,
     <<42926,42926,1,-42308>>, <<42928,42928,1,-42258>>,
     <<42929,42929,1,-42282>>, <<42930,42930,1,-42261>>,
     <<42931,42931,1,928>>, <<42932,42946,2,1>>, <<42948,42948,1,-48>>,
     <<42949,42949,1,-42307>>, <<42950,42950,1,-35384>>, <<42951,42953,2,1>>,
     <<42960,42960,1,1>>, <<42966,42968,2,1>>, <<42997,42997,1,1>>,
     <<65313,65338,1,32>>, <<66560,66599,1,40>>, <<66736,66771,1,40>>,
     <<66928,66938,1,39>>, <<66940,66954,1,39>>, <<66956,66962,1,39>>,
     <<66964,66965,1,39>>, <<68736,68786,1,64>>, <<71840,71871,1,32>>,
     <<93760,93791,1,32>>, <<125184,125217,1,34>>}

\* Case_Ignorable code points, in ranges <<first, last>>
CaseIgnorable ==
    {<<39,39>>, <<46,46>>, <<58,58>>, <<94,94>>, <<96,96>>, <<168,168>>,
     <<173,173>>, <<175,175>>, <<180,180>>, <<183,184>>, <<688,879>>,
     <<884,885>>, <<890,890>>, <<900,901>>, <<903,903>>, <<1155,1161>>,
     <<1369,1369>>, <<1375,1375>>, <<1425,1469>>, <<1471,1471>>,
     <<1473,1474>>, <<1476,1477>>, <<1479,1479>>, <<1524,1524>>,
     <<1536,1541>>, <<1552,1562>>, <<1564,1564>>, <<1600,1600>>,
     <<1611,1631>>, <<1648,1648>>, <<1750,1757>>, <<1759,1768>>,
     <<1770,1773>>, <<1807,1807>>, <<1809,1809>>, <<1840,1866>>,
     <<1958,1968>>, <<2027,2037>>, <<2042,2042>>, <<2045,2045>>,
     <<2070,2093>>, <<2137,2139>>, <<2184,2184>>, <<2192,2193>>,
     <<2200,2207>>, <<2249,2306>>, <<2362,2362>>, <<2364,2364>>,
     <<2369,2376>>, <<2381,2381>>, <<2385,2391>>, <<2402,2403>>,
     <<2417,2417>>, <<2433,2433>>, <<2492,2492>>, <<2497,2500>>,
     <<2509,2509>>, <<2530,2531>>, <<2558,2558>>, <<2561,2562>>,
     <<2620,2620>>, <<2625,2626>>, <<2631,2632>>, <<2635,2637>>,
     <<2641,2641>>, <<2672,2673>>, <<2677,2677>>, <<2689,2690>>,
     <<2748,2748>>, <<2753,2757>>, <<2759,2760>>, <<2765,2765>>,
     <<2786,2787>>, <<2810,2815>>, <<2817,2817>>, <<2876,2876>>,
     <<2879,2879>>, <<2881,2884>>, <<2893,2893>>, <<2901,2902>>,
     <<2914,2915>>, <<2946,2946>>, <<3008,3008>>, <<3021,3021>>,
     <<3072,3072>>, <<3076,3076>>, <<3132,3132>>, <<3134,3136>>,
     <<3142,3144>>, <<3146,3149>>, <<3157,3158>>, <<3170,3171>>,
     <<3201,3201>>, <<3260,3260>>, <<3263,3263>>, <<3270,3270>>,
     <<3276,3277>>, <<3298,3299>>, <<3328,3329>>, <<3387,3388>>,
     <<3393,3396>>, <<3405,3405>>, <<3426,3427>>, <<3457,3457>>,
     <<3530,3530>>, <<3538,3540>>, <<3542,3542>>, <<3633,3633>>,
     <<3636,3642>>, <<3654,3662>>, <<3761,3761>>, <<3764,3772>>,
     <<3782,3782>>, <<3784,3789>>, <<3864,3865>>, <<3893,3893>>,
     <<3895,3895>>, <<3897,3897>>, <<3953,3966>>, <<3968,3972>>,
     <<3974,3975>>, <<3981,3991>>, <<3993,4028>>, <<4038,4038>>,
     <<4141,4144>>, <<4146,4151>>, <<4153,4154>>, <<4157,4158>>,
     <<4184,4185>>, <<4190,4192>>, <<4209,4212>>, <<4226,4226>>,
     <<4229,4230>>, <<4237,4237>>, <<4253,4253>>, <<4348,4348>>,
     <<4957,4959>>, <<5906,5908>>, <<5938,5939>>, <<5970,5971>>,
     <<6002,6003>>, <<6068,6069>>, <<6071,6077>>, <<6086,6086>>,
     <<6089,6099>>, <<6103,6103>>, <<6109,6109>>, <<6155,6159>>,
     <<6211,6211>>, <<6277,6278>>, <<6313,6313>>, <<6432,6434>>,
     <<6439,6440>>, <<6450,6450>>, <<6457,6459>>, <<6679,6680>>,
     <<6683,6683>>, <<6742,6742>>, <<6744,6750>>, <<6752,6752>>,
     <<6754,6754>>, <<6757,6764>>, <<6771,6780>>, <<6783,6783>>,
     <<6823,6823>>, <<6832,6862>>, <<6912,6915>>, <<6964,6964>>,
     <<6966,6970>>, <<6972,6972>>, <<6978,6978>>, <<7019,7027>>,
     <<7040,7041>>, <<7074,7077>>, <<7080,7081>>, <<7083,7085>>,
     <<7142,7142>>, <<7144,7145>>, <<7149,7149>>, <<7151,7153>>,
     <<7212,7219>>, <<7222,7223>>, <<7288,7293>>, <<7376,7378>>,
     <<7380,7392>>, <<7394,7400>>, <<7405,7405>>, <<7412,7412>>,
     <<7416,7417>>, <<7468,7530>>, <<7544,7544>>, <<7579,7679>>,
     <<8125,8125>>, <<8127,8129>>, <<8141,8143>>, <<8157,8159>>,
     <<8173,8175>>, <<8189,8190>>, <<8203,8207>>, <<8216,8217>>,
     <<8228,8228>>, <<8231,8231>>, <<8234,8238>>, <<8288,8292>>,
     <<8294,8303>>, <<8305,8305>>, <<8319,8319>>, <<8336,8348>>,
     <<8400,8432>>, <<11388,11389>>, <<11503,11505>>, <<11631,11631>>,
     <<11647,11647>>, <<11744,11775>>, <<11823,11823>>, <<12293,12293>>,
     <<12330,12333>>, <<12337,12341>>, <<12347,12347>>, <<12441,12446>>,
     <<12540,12542>>, <<40981,40981>>, <<42232,42237>>, <<42508,42508>>,
     <<42607,42610>>, <<42612,42621>>, <<42623,42623>>, <<42652,42655>>,
     <<42736,42737>>, <<42752,42785>>, <<42864,42864>>, <<42888,42890>>,
     <<42994,42996>>, <<43000,43001>>, <<43010,43010>>, <<43014,43014>>,
     <<43019,43019>>, <<43045,43046>>, <<43052,43052>>, <<43204,43205>>,
     <<43232,43249>>, <<43263,43263>>, <<43302,43309>>, <<43335,43345>>,
     <<43392,43394>>, <<43443,43443>>, <<43446,43449>>, <<43452,43453>>,
     <<43471,43471>>, <<43493,43494>>, <<43561,43566>>, <<43569,43570>>,
     <<43573,43574>>, <<43587,43587>>, <<43596,43596>>, <<43632,43632>>,
     <<43644,43644>>, <<43696,43696>>, <<43698,43700>>, <<43703,43704>>,
     <<43710,43711>>, <<43713,43713>>, <<43741,43741>>, <<43756,43757>>,
     <<43763,43764>>, <<43766,43766>>, <<43867,43871>>, <<43881,43883>>,
     <<44005,44005>>, <<44008,44008>>, <<44013,44013>>, <<64286,64286>>,
     <<64434,64450>>, <<65024,65039>>, <<65043,65043>>, <<65056,65071>>,
     <<65106,65106>>, <<65109,65109>>, <<65279,65279>>, <<65287,65287>>,
     <<65294,65294>>, <<65306,65306>>, <<65342,65342>>, <<65344,65344>>,
     <<65392,65392>>, <<65438,65439>>, <<65507,65507>>, <<65529,65531>>,
     <<66045,66045>>, <<66272,66272>>, <<66422,66426>>, <<67456,67461>>,
     <<67463,67504>>, <<67506,67514>>, <<68097,68099>>, <<68101,68102>>,
     <<68108,68111>>, <<68152,68154>>, <<68159,68159>>, <<68325,68326>>,
     <<68900,68903>>, <<69291,69292>>, <<69446,69456>>, <<69506,69509>>,
     <<69633,69633>>, <<69688,69702>>, <<69744,69744>>, <<69747,69748>>,
     <<69759,69761>>, <<69811,69814>>, <<69817,69818>>, <<69821,69821>>,
     <<69826,69826>>, <<69837,69837>>, <<69888,69890>>, <<69927,69931>>,
     <<69933,69940>>, <<70003,70003>>, <<70016,70017>>, <<70070,70078>>,
     <<70089,70092>>, <<70095,70095>>, <<70191,70193>>, <<70196,70196>>,
     <<70198,70199>>, <<70206,70206>>, <<70367,70367>>, <<70371,70378>>,
     <<70400,70401>>, <<70459,70460>>, <<70464,70464>>, <<70502,70508>>,
     <<70512,70516>>, <<70712,70719>>, <<70722,70724>>, <<70726,70726>>,
     <<70750,70750>>, <<70835,70840>>, <<70842,70842>>, <<70847,70848>>,
     <<70850,70851>>, <<71090,71093>>, <<71100,71101>>, <<71103,71104>>,
     <<71132,71133>>, <<71219,71226>>, <<71229,71229>>, <<71231,71232>>,
     <<71339,71339>>, <<71341,71341>>, <<71344,71349>>, <<71351,71351>>,
     <<71453,71455>>, <<71458,71461>>, <<71463,71467>>, <<71727,71735>>,
     <<71737,71738>>, <<71995,71996>>, <<71998,71998>>, <<72003,72003>>,
     <<72148,72151>>, <<72154,72155>>, <<72160,72160>>, <<72193,72202>>,
     <<72243,72248>>, <<72251,72254>>, <<72263,72263>>, <<72273,72278>>,
     <<72281,72283>>, <<72330,72342>>, <<72344,72345>>, <<72752,72758>>,
     <<72760,72765>>, <<72767,72767>>, <<72850,72871>>, <<72874,72880>>,
     <<72882,72883>>, <<72885,72886>>, <<73009,73014>>, <<73018,73018>>,
     <<73020,73021>>, <<73023,73029>>, <<73031,73031>>, <<73104,73105>>,
     <<73109,73109>>, <<73111,73111>>, <<73459,73460>>, <<78896,78904>>,
     <<92912,92916>>, <<92976,92982>>, <<92992,92995>>, <<94031,94031>>,
     <<94095,94111>>, <<94176,94177>>, <<94179,94180>>, <<110576,110579>>,
     <<110581,110587>>, <<110589,110590>>, <<113821,113822>>,
     <<113824,113827>>, <<118528,118573>>, <<118576,118598>>,
     <<119143,119145>>, <<119155,119170>>, <<119173,119179>>,
     <<119210,119213>>, <<119362,119364>>, <<121344,121398>>,
     <<121403,121452>>, <<121461,121461>>, <<121476,121476>>,
     <<121499,121503>>, <<121505,121519>>, <<122880,122886>>,
     <<122888,122904>>, <<122907,122913>>, <<122915,122916>>,
     <<122918,122922>>, <<123184,123197>>, <<123566,123566>>,
     <<123628,123631>>, <<125136,125142>>, <<125252,125259>>,
     <<127995,127999>>, <<917505,917505>>, <<917536,917631>>,
     <<917760,917999>>}

\* Cased code points that are not Case_Ignorable, in ranges <<first, last>>
CasedLetter ==
    {<<65,90>>, <<97,122>>, <<170,170>>, <<181,181>>, <<186,186>>,
     <<192,214>>, <<216,246>>, <<248,442>>, <<444,447>>, <<452,659>>,
     <<661,687>>, <<880,883>>, <<886,887>>, <<891,893>>, <<895,895>>,
     <<902,902>>, <<904,906>>, <<908,908>>, <<910,929>>, <<931,1013>>,
     <<1015,1153>>, <<1162,1327>>, <<1329,1366>>, <<1376,1416>>,
     <<4256,4293>>, <<4295,4295>>, <<4301,4301>>, <<4304,4346>>,
     <<4349,4351>>, <<5024,5109>>, <<5112,5117>>, <<7296,7304>>,
     <<7312,7354>>, <<7357,7359>>, <<7424,7467>>, <<7531,7543>>,
     <<7545,7578>>, <<7680,7957>>, <<7960,7965>>, <<7968,8005>>,
     <<8008,8013>>, <<8016,8023>>, <<8025,8025>>, <<8027,8027>>,
     <<8029,8029>>, <<8031,8061>>, <<8064,8116>>, <<8118,8124>>,
     <<8126,8126>>, <<8130,8132>>, <<8134,8140>>, <<8144,8147>>,
     <<8150,8155>>, <<8160,8172>>, <<8178,8180>>, <<8182,8188>>,
     <<8450,8450>>, <<8455,8455>>, <<8458,8467>>, <<8469,8469>>,
     <<8473,8477>>, <<8484,8484>>, <<8486,8486>>, <<8488,8488>>,
     <<8490,8493>>, <<8495,8500>>, <<8505,8505>>, <<8508,8511>>,
     <<8517,8521>>, <<8526,8526>>, <<8544,8575>>, <<8579,8580>>,
     <<9398,9449>>, <<11264,11387>>, <<11390,11492>>, <<11499,11502>>,
     <<11506,11507>>, <<11520,11557>>, <<11559,11559>>, <<11565,11565>>,
     <<42560,42605>>, <<42624,42651>>, <<42786,42863>>, <<42865,42887>>,
     <<42891,42894>>, <<42896,42954>>, <<42960,42961>>, <<42963,42963>>,
     <<42965,42969>>, <<42997,42998>>, <<43002,43002>>, <<43824,43866>>,
     <<43872,43880>>, <<43888,43967>>, <<64256,64262>>, <<64275,64279>>,
     <<65313,65338>>, <<65345,65370>>, <<66560,66639>>, <<66736,66771>>,
     <<66776,66811>>, <<66928,66938>>, <<66940,66954>>, <<66956,66962>>,
     <<66964,66965>>, <<66967,66977>>, <<66979,66993>>, <<66995,67001>>,
     <<67003,67004>>, <<68736,68786>>, <<68800,68850>>, <<71840,71903>>,
     <<93760,93823>>, <<119808,119892>>, <<119894,119964>>, <<119966,119967>>,
     <<119970,119970>>, <<119973,119974>>, <<119977,119980>>,
     <<119982,119993>>, <<119995,119995>>, <<119997,120003>>,
     <<120005,120069>>, <<120071,120074>>, <<120077,120084>>,
     <<120086,120092>>, <<120094,120121>>, <<120123,120126>>,
     <<120128,120132>>, <<120134,120134>>, <<120138,120144>>,
     <<120146,120485>>, <<120488,120512>>, <<120514,120538>>,
     <<120540,120570>>, <<120572,120596>>, <<120598,120628>>,
     <<120630,120654>>, <<120656,120686>>, <<120688,120712>>,
     <<120714,120744>>, <<120746,120770>>, <<120772,120779>>,
     <<122624,122633>>, <<122635,122654>>, <<125184,125251>>,
     <<127280,127305>>, <<127312,127337>>, <<127344,127369>>}

InRanges(ranges, c) == \E r \in ranges : r[1] <= c /\ c <= r[2]

LowerChar(c) ==
    IF c < 128 THEN (IF 65 <= c /\ c <= 90 THEN c + 32 ELSE c)
    ELSE IF \E r \in LowerRanges :
                r[1] <= c /\ c <= r[2] /\ (c - r[1]) % r[3] = 0
    THEN c + (CHOOSE r \in LowerRanges :
                r[1] <= c /\ c <= r[2] /\ (c - r[1]) % r[3] = 0)[4]
    ELSE c

\* nearest position at or before j whose character is not Case_Ignorable,
\* 0 if none
RECURSIVE BackOverIgnorable(_, _)
BackOverIgnorable(s, j) ==
    IF j >= 1 /\ InRanges(CaseIgnorable, s[j])
    THEN BackOverIgnorable(s, j - 1) ELSE j

\* nearest position at or after j whose character is not Case_Ignorable,
\* Len(s)+1 if none
RECURSIVE ForwardOverIgnorable(_, _)
ForwardOverIgnorable(s, j) ==
    IF j <= Len(s) /\ InRanges(CaseIgnorable, s[j])
    THEN ForwardOverIgnorable(s, j + 1) ELSE j

\* the capital sigma at s[i] ends a word: a cased letter before it and none
\* after it, case-ignorable characters skipped
FinalSigma(s, i) ==
    LET b == BackOverIgnorable(s, i - 1)
        f == ForwardOverIgnorable(s, i + 1)
    IN  /\ b >= 1 /\ InRanges(CasedLetter, s[b])
        /\ f > Len(s) \/ ~InRanges(CasedLetter, s[f])

\* what str.lower makes of the character at s[i]
LowerAt(s, i) ==
    IF s[i] = 931 THEN (IF FinalSigma(s, i) THEN <<962>> ELSE <<963>>)
    ELSE IF s[i] = 304 THEN <<105, 775>>
    ELSE <<LowerChar(s[i])>>

RECURSIVE LowerFrom(_, _)
LowerFrom(s, i) ==
    IF i > Len(s) THEN <<>> ELSE LowerAt(s, i) \o LowerFrom(s, i + 1)

\* str.lower()
lower(s) == LowerFrom(s, 1)

\* the code points str.strip removes (str.isspace), in ranges <<first, last>>
Whitespace ==
    {<<9,13>>, <<28,32>>, <<133,133>>, <<160,160>>, <<5760,5760>>,
     <<8192,8202>>, <<8232,8233>>, <<8239,8239>>, <<8287,8287>>,
     <<12288,12288>>}

RECURSIVE lstrip(_)
lstrip(s) ==
    IF s # <<>> /\ InRanges(Whitespace, Head(s)) THEN lstrip(Tail(s)) ELSE s

RECURSIVE rstrip(_)
rstrip(s) ==
    IF s # <<>> /\ InRanges(Whitespace, s[Len(s)])
    THEN rstrip(SubSeq(s, 1, Len(s) - 1))
    ELSE s

\* str.strip()
strip(s) == rstrip(lstrip(s))

\* str.endswith(suf)
endswith(s, suf) ==
    /\ Len(s) >= Len(suf)
    /\ SubSeq(s, Len(s) - Len(suf) + 1, Len(s)) = suf

\* s[:-n]
DropLast(s, n) == SubSeq(s, 1, Len(s) - n)

----------------------------------------------------------------------------
(* split_suffix, lines 87-102 *)

split_suffix_plus_first(s) ==
    IF endswith(s, <<43>>) THEN <<DropLast(s, 1), "+">>
    ELSE IF endswith(s, <<43, 43>>) THEN <<DropLast(s, 2), "++">>
    ELSE <<s, "">>

RECURSIVE split_suffix_greedy(_)
split_suffix_greedy(s) ==
    IF endswith(s, <<43, 43, 43>>) THEN split_suffix_greedy(DropLast(s, 1))
    ELSE IF endswith(s, <<43, 43>>) THEN <<DropLast(s, 2), "++">>
    ELSE IF endswith(s, <<43>>) THEN <<DropLast(s, 1), "+">>
    ELSE <<s, "">>

split_suffix_off_by_one(s) ==
    IF endswith(s, <<43, 43>>) THEN <<DropLast(s, 1), "++">>
    ELSE IF endswith(s, <<43>>) THEN <<DropLast(s, 1), "+">>
    ELSE <<s, "">>

split_suffix(s) ==
    IF endswith(s, <<43, 43>>) THEN <<DropLast(s, 2), "++">>
    ELSE IF endswith(s, <<43>>) THEN <<DropLast(s, 1), "+">>
    ELSE <<s, "">>

----------------------------------------------------------------------------
(* datetime.fromtimestamp(dt, tz=timezone.utc).strftime(...), line 42 *)

Digits == <<"0", "1", "2", "3", "4", "5", "6", "7", "8", "9">>
Digit(d) == Digits[d + 1]
Pad2(n) == Digit((n \div 10) % 10) \o Digit(n % 10)
Pad4(n) == Pad2(n \div 100) \o Pad2(n % 100)

\* proleptic Gregorian date of the day `days` days after 1970-01-01
CivilFromDays(days) ==
    LET z   == days + 719468
        era == z \div 146097
        doe == z - era * 146097
        yoe == (doe - doe \div 1460 + doe \div 36524 - doe \div 146096) \div 365
        doy == doe - (365 * yoe + yoe \div 4 - yoe \div 100)
        mp  == (5 * doy + 2) \div 153
        d   == doy - (153 * mp + 2) \div 5 + 1
        m   == IF mp < 10 THEN mp + 3 ELSE mp - 9
        y   == yoe + era * 400 + (IF m <= 2 THEN 1 ELSE 0)
    IN  [year |-> y, month |-> m, day |-> d]

\* "%Y-%m-%d %H:%M:%S UTC" of epoch second dt (0 <= dt, year <= 9999)
FormatDt(dt) ==
    LET date == CivilFromDays(dt \div 86400)
        sod  == dt % 86400
    IN  Pad4(date.year) \o "-" \o Pad2(date.month) \o "-" \o Pad2(date.day)
        \o " " \o Pad2(sod \div 3600) \o ":" \o Pad2((sod % 3600) \div 60)
        \o ":" \o Pad2(sod % 60) \o " UTC"

----------------------------------------------------------------------------
(* Provider responses: the input requests.get hands to line 34 *)

HTTP_OK == 200

EmptyDict == [k \in {} |-> 0]

\* Python's None: no str is equal to it
None == <<"None">>

\* no exception left the call
NoException == "None"

Drop(d, k) == [x \in DOMAIN d \ {k} |-> d[x]]

\* two complete bodies that differ in every field the code reads; like the
\* provider's, they carry fields the code does not read
Payload1 ==
    [coord |-> [lat |-> 51, lon |-> 0], timezone |-> 3600, dt |-> 1700000000,
     main |-> [temp |-> 15, feels_like |-> 14, pressure |-> 1012,
               humidity |-> 60, temp_min |-> 13],
     visibility |-> 10000, wind |-> [speed |-> 4, deg |-> 240],
     weather |-> <<[description |-> "clear sky", icon |-> "01d"]>>,
     name |-> "London"]

Payload2 ==
    [coord |-> [lat |-> 48, lon |-> 2], timezone |-> 7200, dt |-> 951868799,
     main |-> [temp |-> 3, feels_like |-> 1, pressure |-> 998,
               humidity |-> 81, temp_min |-> 2],
     visibility |-> 6000, wind |-> [speed |-> 9, deg |-> 10],
     weather |-> <<[description |-> "light rain", icon |-> "10n"]>>,
     name |-> "Paris"]

Leaves == {"lat", "lon", "timezone", "dt", "temp", "feels_like", "pressure",
           "humidity", "visibility", "speed", "description"}

\* body p with the one field `leaf` taken from body q
WithLeaf(p, leaf, q) ==
    CASE leaf = "lat" -> [p EXCEPT !.coord.lat = q.coord.lat]
      [] leaf = "lon" -> [p EXCEPT !.coord.lon = q.coord.lon]
      [] leaf = "timezone" -> [p EXCEPT !.timezone = q.timezone]
      [] leaf = "dt" -> [p EXCEPT !.dt = q.dt]
      [] leaf = "temp" -> [p EXCEPT !.main.temp = q.main.temp]
      [] leaf = "feels_like" -> [p EXCEPT !.main.feels_like = q.main.feels_like]
      [] leaf = "pressure" -> [p EXCEPT !.main.pressure = q.main.pressure]
      [] leaf = "humidity" -> [p EXCEPT !.main.humidity = q.main.humidity]
      [] leaf = "visibility" -> [p EXCEPT !.visibility = q.visibility]
      [] leaf = "speed" -> [p EXCEPT !.wind.speed = q.wind.speed]
      [] leaf = "description" ->
            [p EXCEPT !.weather = <<[p.weather[1] EXCEPT
                            !.description = q.weather[1].description]>>]

\* body p with the one field `leaf` absent
WithoutLeaf(p, leaf) ==
    CASE leaf = "lat" -> [p EXCEPT !.coord = Drop(p.coord, "lat")]
      [] leaf = "lon" -> [p EXCEPT !.coord = Drop(p.coord, "lon")]
      [] leaf \in {"timezone", "dt", "visibility"} -> Drop(p, leaf)
      [] leaf \in {"temp", "feels_like", "pressure", "humidity"} ->
            [p EXCEPT !.main = Drop(p.main, leaf)]
      [] leaf = "speed" -> [p EXCEPT !.wind = Drop(p.wind, "speed")]
      [] leaf = "description" ->
            [p EXCEPT !.weather = <<Drop(p.weather[1], "description")>>]

CompleteBodies ==
    {Payload1, Payload2} \cup {WithLeaf(Payload1, f, Payload2) : f \in Leaves}

IncompleteBodies ==
    {WithoutLeaf(Payload1, f) : f \in Leaves}
    \cup {Drop(Payload1, g) : g \in {"coord", "main", "wind", "weather"}}
    \cup {[Payload1 EXCEPT !.weather = <<>>]}

HttpResponse(code, json, d) ==
    [kind |-> "http", status_code |-> code, is_json |-> json, data |-> d]

\* requests.get returned no response: it raised (DNS, refused, reset)
NetworkFailure == [kind |-> "error"]

NoResponseYet == [kind |-> "none"]

Responses ==
    {HttpResponse(HTTP_OK, TRUE, d) : d \in CompleteBodies \cup IncompleteBodies}
    \cup {HttpResponse(HTTP_OK, FALSE, EmptyDict)}
    \cup {HttpResponse(c, TRUE, [cod |-> c, message |-> "request failed"]) :
            c \in {401, 404, 429, 500}}
    \cup {NetworkFailure}

----------------------------------------------------------------------------
(* fetch_weather_info, lines 15-85 *)

\* lines 27-31
RequestParams(c) == [q |-> lower(c), appid |-> api_key, units |-> "metric"]

RECURSIVE FirstRaised(_)
FirstRaised(steps) ==
    IF steps = <<>> THEN NoException
    ELSE IF Head(steps) # NoException THEN Head(steps)
    ELSE FirstRaised(Tail(steps))

\* d[k]
Lookup1(d, k) == IF k \in DOMAIN d THEN NoException ELSE "KeyError"

\* d[g][k]
Lookup2(d, g, k) ==
    IF g \notin DOMAIN d THEN "KeyError" ELSE Lookup1(d[g], k)

\* the exception lines 39-49 raise on body d, in the order they run
ExtractRaises(d) ==
    FirstRaised(<<
        Lookup2(d, "coord", "lat"),
        Lookup2(d, "coord", "lon"),
        Lookup1(d, "timezone"),
        Lookup1(d, "dt"),
        Lookup2(d, "main", "temp"),
        Lookup2(d, "main", "feels_like"),
        Lookup2(d, "main", "pressure"),
        Lookup2(d, "main", "humidity"),
        Lookup1(d, "visibility"),
        Lookup2(d, "wind", "speed"),
        IF "weather" \notin DOMAIN d THEN "KeyError"
        ELSE IF d.weather = <<>> THEN "IndexError"
        ELSE Lookup1(d.weather[1], "description") >>)

\* the locals of lines 39-49
Locals(d) ==
    [raised |-> NoException,
     lat |-> d.coord.lat, lon |-> d.coord.lon, tz |-> d.timezone,
     dt |-> FormatDt(d.dt), temp |-> d.main.temp,
     feels_like |-> d.main.feels_like, pressure |-> d.main.pressure,
     humidity |-> d.main.humidity, visibility |-> d.visibility,
     wind_speed |-> d.wind.speed, descr |-> d.weather[1].description]

\* a variant that reads every field with a default, as dict.get would
Extract_with_defaults(d) ==
    LET G1(x, k, dflt) == IF k \in DOMAIN x THEN x[k] ELSE dflt
        G2(x, g, k, dflt) == IF g \in DOMAIN x THEN G1(x[g], k, dflt) ELSE dflt
    IN  [raised |-> NoException,
         lat |-> G2(d, "coord", "lat", 0), lon |-> G2(d, "coord", "lon", 0),
         tz |-> G1(d, "timezone", 0), dt |-> FormatDt(G1(d, "dt", 0)),
         temp |-> G2(d, "main", "temp", 0),
         feels_like |-> G2(d, "main", "feels_like", 0),
         pressure |-> G2(d, "main", "pressure", 0),
         humidity |-> G2(d, "main", "humidity", 0),
         visibility |-> G1(d, "visibility", 0),
         wind_speed |-> G2(d, "wind", "speed", 0),
         descr |-> IF "weather" \in DOMAIN d /\ d.weather # <<>>
                   THEN G1(d.weather[1], "description", "") ELSE ""]

\* lines 38-49: all eleven fields are read before the suffix is looked at
Extract(d) ==
    IF ExtractRaises(d) # NoException THEN [raised |-> ExtractRaises(d)] ELSE Locals(d)

Report_levels_swapped(x, sfx) ==
    IF sfx = "++" THEN
        [latitude |-> x.lat, longitude |-> x.lon, date |-> x.dt,
         temperature |-> x.temp, feels_like |-> x.feels_like,
         description |-> x.descr]
    ELSE IF sfx = "+" THEN
        [latitude |-> x.lat, longitude |-> x.lon, timezone |-> x.tz,
         date |-> x.dt, temperature |-> x.temp, feels_like |-> x.feels_like,
         pressure |-> x.pressure, humidity |-> x.humidity,
         visibility |-> x.visibility, wind_speed |-> x.wind_speed,
         description |-> x.descr]
    ELSE
        [temperature |-> x.temp, feels_like |-> x.feels_like,
         description |-> x.descr]

\* lines 52-80
Report(x, sfx) ==
    IF sfx = "+" THEN
        [latitude |-> x.lat, longitude |-> x.lon, date |-> x.dt,
         temperature |-> x.temp, feels_like |-> x.feels_like,
         description |-> x.descr]
    ELSE IF sfx = "++" THEN
        [latitude |-> x.lat, longitude |-> x.lon, timezone |-> x.tz,
         date |-> x.dt, temperature |-> x.temp, feels_like |-> x.feels_like,
         pressure |-> x.pressure, humidity |-> x.humidity,
         visibility |-> x.visibility, wind_speed |-> x.wind_speed,
         description |-> x.descr]
    ELSE
        [temperature |-> x.temp, feels_like |-> x.feels_like,
         description |-> x.descr]

\* "No weather info for "
NoWeatherInfoFor ==
    <<78, 111, 32, 119, 101, 97, 116, 104, 101, 114, 32, 105, 110, 102, 111, 32, 102, 111, 114, 32>>

ErrorResult_name_as_given(c) ==
    [error_message |-> NoWeatherInfoFor \o c]

\* lines 83-85
ErrorResult(c) ==
    [error_message |-> NoWeatherInfoFor \o lower(c)]

Raise(e) == [raised |-> e, value |-> EmptyDict]
Return(v) == [raised |-> NoException, value |-> v]

\* lines 34-85, given what requests.get produced: an exception of
\* requests.get, of response.json() or of the extraction leaves the
\* function; otherwise it returns a dict
fetch_weather_info(c, sfx, r) ==
    IF r.kind = "error" THEN Raise("RequestException")
    ELSE IF r.status_code = HTTP_OK THEN
        IF ~r.is_json THEN Raise("ValueError")
        ELSE LET x == Extract(r.data)
             IN  IF x.raised # NoException THEN Raise(x.raised)
                 ELSE Return(Report(x, sfx))
    ELSE Return(ErrorResult(c))

----------------------------------------------------------------------------
(* index, lines 106-117, and the process *)

\* os.getenv("WEATHER_API_KEY"), a string (line 11 raises at start-up if not)
ApiKeys == {"key-A"}

NoParams == EmptyDict

index_shared_weather_data == weather_data

\* line 108: weather_data is a local of index, {} in every call
index_weather_data == EmptyDict

index_fetches_always(method) == TRUE

\* line 111
index_is_post(method) == method = "POST"

\* lines 8-13: the process after start-up, serving nothing
Init ==
    /\ api_key \in ApiKeys
    /\ pc = "idle"
    /\ entry = "none"
    /\ form = EmptyDict
    /\ string = <<>>
    /\ city = <<>>
    /\ suffix = ""
    /\ params = NoParams
    /\ req_calls = 0
    /\ response = NoResponseYet
    /\ weather_data = EmptyDict
    /\ error = None
    /\ exception = NoException

\* lines 107-113: a request arrives; a GET goes straight to line 117; a POST
\* reads the form field (line 112 raises when the form has none), normalises
\* and splits it and calls fetch_weather_info
IndexEnter(method, f) ==
    /\ pc = "idle"
    /\ entry' = method
    /\ form' = f
    /\ weather_data' = index_weather_data
    /\ error' = None
    /\ IF index_is_post(method)
       THEN IF "city" \in DOMAIN f
            THEN LET parsed == split_suffix(lower(strip(f["city"])))
                 IN  /\ string' = lower(strip(f["city"]))
                     /\ city' = parsed[1]
                     /\ suffix' = parsed[2]
                     /\ pc' = "fetch"
                     /\ UNCHANGED exception
            ELSE /\ pc' = "raised"
                 /\ exception' = "BadRequestKeyError"
                 /\ UNCHANGED <<string, city, suffix>>
       ELSE /\ pc' = "rendered"
            /\ UNCHANGED <<string, city, suffix, exception>>
    /\ UNCHANGED <<api_key, params, req_calls, response>>

\* split_suffix called on its own
CallSplitSuffix(s) ==
    /\ pc = "idle"
    /\ entry' = "split_suffix"
    /\ string' = s
    /\ city' = split_suffix(s)[1]
    /\ suffix' = split_suffix(s)[2]
    /\ pc' = "split_done"
    /\ UNCHANGED <<api_key, form, params, req_calls, response,
                   weather_data, error, exception>>

\* fetch_weather_info called on its own
CallFetch(c, sfx) ==
    /\ pc = "idle"
    /\ entry' = "fetch_weather_info"
    /\ city' = c
    /\ suffix' = sfx
    /\ pc' = "fetch"
    /\ UNCHANGED <<api_key, form, string, params, req_calls, response,
                   weather_data, error, exception>>

\* lines 26-34: the outbound GET is sent and the thread blocks in requests.get
SendRequest ==
    /\ pc = "fetch"
    /\ params' = RequestParams(city)
    /\ req_calls' = req_calls + 1
    /\ pc' = "await"
    /\ UNCHANGED <<api_key, entry, form, string, city, suffix, response,
                   weather_data, error, exception>>

\* lines 34-85 (and line 114): requests.get produces r and fetch_weather_info
\* runs to its return or to the exception that leaves it
Respond(r) ==
    LET out == fetch_weather_info(city, suffix, r)
    IN  /\ pc = "await"
        /\ response' = r
        /\ exception' = out.raised
        /\ IF out.raised # NoException
           THEN /\ pc' = "raised"
                /\ UNCHANGED weather_data
           ELSE /\ pc' = IF entry = "POST" THEN "handle" ELSE "returned"
                /\ weather_data' = out.value
        /\ UNCHANGED <<api_key, entry, form, string, city, suffix, params,
                       req_calls, error>>

\* lines 115-117
Render ==
    /\ pc = "handle"
    /\ IF "error" \in DOMAIN weather_data
       THEN /\ error' = weather_data["error"]
            /\ weather_data' = Drop(weather_data, "error")
       ELSE UNCHANGED <<weather_data, error>>
    /\ pc' = "rendered"
    /\ UNCHANGED <<api_key, entry, form, string, city, suffix, params,
                   req_calls, response, exception>>

\* the call is over (rendered page, 400 or 500 sent, or the direct call returned);
\* its frame is gone, and each local stands at what the next call starts from
Finish ==
    /\ pc \in {"rendered", "raised", "returned", "split_done"}
    /\ pc' = "idle"
    /\ entry' = "none"
    /\ form' = EmptyDict
    /\ string' = <<>>
    /\ city' = <<>>
    /\ suffix' = ""
    /\ params' = NoParams
    /\ req_calls' = 0
    /\ response' = NoResponseYet
    /\ weather_data' = index_weather_data
    /\ error' = None
    /\ exception' = NoException
    /\ UNCHANGED api_key

Next ==
    \/ \E f \in Forms : IndexEnter("GET", f)
    \/ \E f \in Forms : IndexEnter("POST", f)
    \/ \E s \in Strings : CallSplitSuffix(s)
    \/ \E c \in CityArgs, sfx \in Suffixes : CallFetch(c, sfx)
    \/ SendRequest
    \/ \E r \in Responses : Respond(r)
    \/ Render
    \/ Finish

Spec == Init /\ [][Next]_vars

----------------------------------------------------------------------------
(* Properties *)

\* split_suffix has been applied in the call being served
SplitApplied ==
    /\ pc # "idle"
    /\ \/ entry = "split_suffix"
       \/ entry = "POST" /\ "city" \in DOMAIN form

\* requests.get has produced its outcome in the call being served
AfterFetch == pc \in {"handle", "returned", "raised", "rendered"}
              /\ entry \in {"POST", "fetch_weather_info"}

Non200 == response.kind = "http" /\ response.status_code # 200

ReportKeys == {"latitude", "longitude", "timezone", "date", "temperature",
               "feels_like", "pressure", "humidity", "visibility",
               "wind_speed", "description"}

RECURSIVE TrailingPlus(_)
TrailingPlus(s) ==
    IF s # <<>> /\ s[Len(s)] = 43
    THEN 1 + TrailingPlus(SubSeq(s, 1, Len(s) - 1))
    ELSE 0

\* C1: split_suffix is total and has exactly three outcomes: an argument
\* ending in "++" gives (argument minus its last two characters, "++");
\* otherwise one ending in "+" gives (argument minus its last character,
\* "+"); otherwise (argument, "").  So for s not ending in "+": s gives
\* (s, ""), s+"+" gives (s, "+") and s+"++" gives (s, "++").
C1_SplitSuffixThreeOutcomes ==
    SplitApplied =>
        LET n   == Len(string)
            one == n >= 1 /\ string[n] = 43
            two == n >= 2 /\ string[n] = 43 /\ string[n - 1] = 43
        IN  /\ pc \in {"split_done", "fetch"} => exception = NoException
            /\ two => city = SubSeq(string, 1, n - 2) /\ suffix = "++"
            /\ (one /\ ~two) => city = SubSeq(string, 1, n - 1) /\ suffix = "+"
            /\ ~one => city = string /\ suffix = ""
            /\ LET k == TrailingPlus(string)
                   s == SubSeq(string, 1, n - k)
               IN  /\ s = <<>> \/ s[Len(s)] # 43
                   /\ string = s => city = s /\ suffix = ""
                   /\ string = s \o <<43>> => city = s /\ suffix = "+"
                   /\ string = s \o <<43, 43>> => city = s /\ suffix = "++"

C1_Witness ==
    /\ pc = "split_done"
    /\ string = <<76, 32, 43, 43>>
    /\ city = <<76, 32>>
    /\ suffix = "++"

\* C2: a 200 response carrying every expected field gives a report whose keys
\* are exactly the 3, 6 or 11 keys of the detail level, each value the
\* corresponding provider field (dt formatted), and no error key.
C2_ReportShape ==
    (AfterFetch /\ response.kind = "http" /\ response.status_code = 200
        /\ response.is_json /\ response.data \in CompleteBodies) =>
        LET d == response.data
            date == FormatDt(d.dt)
        IN  /\ pc # "raised"
            /\ exception = NoException
            /\ suffix = "" =>
                 /\ DOMAIN weather_data =
                        {"temperature", "feels_like", "description"}
                 /\ weather_data =
                        [temperature |-> d.main.temp,
                         feels_like |-> d.main.feels_like,
                         description |-> d.weather[1].description]
            /\ suffix = "+" =>
                 /\ DOMAIN weather_data =
                        {"latitude", "longitude", "date", "temperature",
                         "feels_like", "description"}
                 /\ weather_data =
                        [latitude |-> d.coord.lat, longitude |-> d.coord.lon,
                         date |-> date, temperature |-> d.main.temp,
                         feels_like |-> d.main.feels_like,
                         description |-> d.weather[1].description]
            /\ suffix = "++" =>
                 /\ DOMAIN weather_data = ReportKeys
                 /\ weather_data =
                        [latitude |-> d.coord.lat, longitude |-> d.coord.lon,
                         timezone |-> d.timezone, date |-> date,
                         temperature |-> d.main.temp,
                         feels_like |-> d.main.feels_like,
                         pressure |-> d.main.pressure,
                         humidity |-> d.main.humidity,
                         visibility |-> d.visibility,
                         wind_speed |-> d.wind.speed,
                         description |-> d.weather[1].description]
            /\ (suffix # "" /\ d.dt = 1700000000) =>
                 weather_data.date = "2023-11-14 22:13:20 UTC"
            /\ (suffix # "" /\ d.dt = 951868799) =>
                 weather_data.date = "2000-02-29 23:59:59 UTC"

C2_Witness ==
    /\ pc = "returned"
    /\ suffix = "++"
    /\ response = HttpResponse(200, TRUE, Payload1)
    /\ Cardinality(DOMAIN weather_data) = 11
    /\ weather_data.humidity = 60

\* "atlantis"
atlantis == <<97, 116, 108, 97, 110, 116, 105, 115>>

\* C3: on a response whose status is not 200, fetch_weather_info returns the
\* error result whose message is "No weather info for " followed by the
\* lowercased name, with none of the report keys; fetch("Atlantis", NONE)
\* gives "No weather info for atlantis".
C3_Non200ErrorResult ==
    (AfterFetch /\ Non200) =>
        /\ pc # "raised"
        /\ exception = NoException
        /\ DOMAIN weather_data = {"error_message"}
        /\ DOMAIN weather_data \cap ReportKeys = {}
        /\ weather_data.error_message =
               NoWeatherInfoFor \o lower(city)
        /\ city = Atlantis =>
               weather_data.error_message = NoWeatherInfoFor \o atlantis
        /\ city = <<201, 76>> =>
               weather_data.error_message = NoWeatherInfoFor \o <<233, 108>>

C3_Witness ==
    /\ pc = "returned"
    /\ city = Atlantis
    /\ suffix = ""
    /\ Non200
    /\ weather_data = [error_message |-> NoWeatherInfoFor \o atlantis]

\* C4: every way the provider request fails to succeed, a network failure
\* with no HTTP response included, ends with fetch_weather_info returning the
\* error result "No weather info for {name}"; no exception escapes.
C4_EveryFailureYieldsErrorResult ==
    (AfterFetch /\ (response.kind = "error" \/ Non200)) =>
        /\ pc # "raised"
        /\ exception = NoException
        /\ weather_data =
               [error_message |-> NoWeatherInfoFor \o lower(city)]

\* C5: on a POST for which fetch_weather_info returned an error result, the
\* view gets the message as `error` and `data` no longer holds it; on GET and
\* on POST with a report, `error` is None.
C5_ErrorSurfacedToView ==
    pc = "rendered" =>
        IF entry = "POST" /\ Non200
        THEN /\ error = NoWeatherInfoFor \o lower(city)
             /\ "error_message" \notin DOMAIN weather_data
        ELSE error = None

\* outbound GETs of the call being served, by what is served and where it is
C6_Counts ==
    /\ req_calls \in {0, 1}
    /\ entry \in {"GET", "split_suffix", "none"} => req_calls = 0
    /\ (entry = "fetch_weather_info"
          \/ (entry = "POST" /\ "city" \in DOMAIN form)) =>
          (req_calls = 1 <=> pc # "fetch")
    /\ (entry = "POST" /\ "city" \notin DOMAIN form) =>
          req_calls = 0 /\ pc = "raised"
    /\ (entry = "POST" /\ req_calls = 1) =>
          /\ <<city, suffix>> = split_suffix(string)
          /\ string = lower(strip(form["city"]))
          /\ params.q = lower(city)

\* C6 as stated: every POST to "/", once served, has made exactly one
\* outbound GET, never zero.
C6_EveryPostCallsOnce ==
    (entry = "POST" /\ pc \in {"rendered", "raised"}) => req_calls = 1

\* C6, amended: a POST that carries the form field city makes exactly one
\* outbound GET, whatever the response; so does each call of
\* fetch_weather_info; a GET of "/" makes none, and neither does a POST
\* without the field, which line 112 ends before fetch_weather_info is
\* called; the outbound GET is sent after the suffix was split off and before
\* the page is rendered.
C6_OneOutboundCall ==
    /\ []C6_Counts
    /\ [][req_calls' # req_calls =>
            \/ pc' = "idle" /\ req_calls' = 0
            \/ /\ pc = "fetch" /\ pc' = "await"
               /\ req_calls' = req_calls + 1]_vars
    /\ [][pc' = "rendered" =>
            \/ entry' = "GET" /\ req_calls' = 0
            \/ entry' = "POST" /\ req_calls = 1 /\ req_calls' = 1]_vars

C6_Witness ==
    /\ pc = "rendered"
    /\ entry = "POST"
    /\ Non200
    /\ req_calls = 1

\* "london"
london == <<108, 111, 110, 100, 111, 110>>

\* the characters of a suffix made of plus signs
Chars(sfx) == [i \in 1..Len(sfx) |-> 43]

\* C7: the (name, suffix) the handler hands to fetch_weather_info satisfies
\* suffix in {"", "+", "++"} and name + suffix = n, n the form input stripped
\* and lowercased; "London++" gives ("london", "++").  For split_suffix
\* alone, name + suffix is its argument.
C7_RoundTrip ==
    /\ SplitApplied =>
          /\ suffix \in {"", "+", "++"}
          /\ city \o Chars(suffix) = string
    /\ (entry = "POST" /\ pc # "idle" /\ "city" \in DOMAIN form) =>
          /\ city \o Chars(suffix) = lower(strip(form["city"]))
          /\ \A i \in DOMAIN string :
                string[i] \notin {76, 80, 65, 201, 304, 927, 931}
          /\ string # <<>> =>
                /\ string[1] \notin {32, 12}
                /\ string[Len(string)] \notin {32, 12}
          /\ form["city"] = London_pp => city = london /\ suffix = "++"
          /\ form["city"] = Elancourt_p =>
                city = <<233, 108>> /\ suffix = "+"
          /\ form["city"] = Istanbul_pp =>
                city = <<105, 775>> /\ suffix = "++"
          /\ form["city"] = Odos_p =>
                city = <<959, 948, 959, 962>> /\ suffix = "+"
          /\ pc # "fetch" => params.q = city

C7_Witness ==
    /\ pc = "await"
    /\ entry = "POST"
    /\ form = [city |-> London_pp]
    /\ city = london
    /\ suffix = "++"

\* C8: the suffix is decided by the number k of trailing '+' of the argument
\* alone (0, 1, 2 or more); never more than the last two characters are
\* removed, so for k >= 3 the result is "++" with a name still ending in
\* k-2 '+'; a '+' elsewhere changes nothing.
C8_AtMostTwoSignificant ==
    SplitApplied =>
        LET k == TrailingPlus(string)
        IN  /\ Len(string) - Len(city) \in {0, 1, 2}
            /\ city = SubSeq(string, 1, Len(city))
            /\ suffix = (IF k = 0 THEN "" ELSE IF k = 1 THEN "+" ELSE "++")
            /\ k >= 3 => suffix = "++" /\ TrailingPlus(city) = k - 2

C8_Witness ==
    /\ pc = "split_done"
    /\ string = <<108, 43, 43, 43>>
    /\ city = <<108, 43>>
    /\ suffix = "++"

\* what index renders for a request, from that request and its response only
ViewOf(method, f, r) ==
    IF method = "GET" THEN <<EmptyDict, None>>
    ELSE LET p == split_suffix(lower(strip(f["city"])))
             v == fetch_weather_info(p[1], p[2], r).value
         IN  IF "error" \in DOMAIN v THEN <<Drop(v, "error"), v["error"]>>
             ELSE <<v, None>>

C9_View ==
    /\ req_calls >= 1 =>
          params = [q |-> lower(city), appid |-> api_key, units |-> "metric"]
    /\ pc = "rendered" =>
          <<weather_data, error>> = ViewOf(entry, form, response)
    /\ (pc = "rendered" /\ entry = "GET") =>
          weather_data = EmptyDict /\ error = None

\* C9: requests are stateless: no step changes the API key, every outbound
\* call carries that key and units=metric, and what is rendered for a request
\* is decided by its own form input and the provider's response to it.
C9_Stateless ==
    /\ [][api_key' = api_key]_vars
    /\ []C9_View

C9_Witness ==
    /\ pc = "rendered"
    /\ entry = "POST"
    /\ response = HttpResponse(200, TRUE, Payload2)
    /\ suffix = "+"
    /\ params.appid = api_key
    /\ weather_data.latitude = 48

\* the body carries the field
HasLeaf(d, leaf) ==
    CASE leaf \in {"lat", "lon"} ->
            "coord" \in DOMAIN d /\ leaf \in DOMAIN d.coord
      [] leaf \in {"timezone", "dt", "visibility"} -> leaf \in DOMAIN d
      [] leaf \in {"temp", "feels_like", "pressure", "humidity"} ->
            "main" \in DOMAIN d /\ leaf \in DOMAIN d.main
      [] leaf = "speed" -> "wind" \in DOMAIN d /\ "speed" \in DOMAIN d.wind
      [] leaf = "description" ->
            /\ "weather" \in DOMAIN d
            /\ d.weather # <<>>
            /\ "description" \in DOMAIN d.weather[1]

\* the provider fields a report of the detail level shows
ShapeLeaves(sfx) ==
    IF sfx = "" THEN {"temp", "feels_like", "description"}
    ELSE IF sfx = "+"
    THEN {"lat", "lon", "dt", "temp", "feels_like", "description"}
    ELSE Leaves

\* C10: on a 200 response the outcome is never the error result; a 200 body
\* lacking any one of the eleven fields gives no report at any detail level
\* but an exception out of fetch_weather_info; with all eleven present, the
\* "" and "+" reports do not depend on the fields outside their shape.
C10_ExtractsAllBeforeProjecting ==
    (AfterFetch /\ response.kind = "http" /\ response.status_code = 200) =>
        /\ "error_message" \notin DOMAIN weather_data
        /\ (response.is_json
              /\ \E f \in Leaves : ~HasLeaf(response.data, f)) =>
                 /\ pc = "raised"
                 /\ exception \in {"KeyError", "IndexError"}
                 /\ weather_data = EmptyDict
        /\ (response.is_json
              /\ \A f \in Leaves : HasLeaf(response.data, f)) =>
                 /\ pc # "raised"
                 /\ \A q \in CompleteBodies :
                      (\A f \in ShapeLeaves(suffix) :
                          WithLeaf(q, f, response.data) = q) =>
                         fetch_weather_info(city, suffix,
                             HttpResponse(200, TRUE, q)).value = weather_data

C10_Witness ==
    /\ pc = "raised"
    /\ suffix = ""
    /\ response = HttpResponse(200, TRUE, WithoutLeaf(Payload1, "visibility"))
    /\ exception = "KeyError"
    /\ weather_data = EmptyDict

====
